---- MODULE Spec2Model ----
(***************************************************************************)
(* Semlocks: an in-process named-semaphore coordinator (lib/Semlocks.js,   *)
(* the version with default caps, forceRelease and handle wrap-around).    *)
(*                                                                         *)
(* Every public method and every deferred task (setImmediate callbacks,    *)
(* wait and ttl timers) is one action.  The methods are JavaScript         *)
(* procedures that call each other; they are written here as operators     *)
(* that take the whole instance state as a record `st` and return the      *)
(* state they leave behind.  A TypeError raised by the code ends the       *)
(* running method at the statement that raised it and propagates to the    *)
(* caller or to the event loop: `thrown` becomes TRUE, the state is the    *)
(* one the method left behind at that statement, and the instance takes    *)
(* no further step.                                                        *)
(***************************************************************************)
EXTENDS Integers, Sequences, FiniteSets, TLC

VARIABLES
    _reqs,        \* this._reqs: handle -> request record (live handles only)
    _semQueues,   \* this._semQueues: sem -> array of waiting handles
    queueKeys,    \* the keys of this._semQueues in insertion order (for..in)
    _sems,        \* this._sems: sem -> array of handles holding a lock
    _semCaps,     \* this._semCaps: sem -> explicit cap
    _curId,       \* this._curId
    _defaultCap,  \* this._defaultCap
    immediates,   \* the setImmediate queue: tasks scheduled by the instance
    timers,       \* armed setTimeout timers of the instance
    cbLog,        \* every invocation of a request callback, in order
    listening,    \* whether a listener is attached to the instance (EventEmitter)
    events,       \* the events the listener received in the last step, in order
    thrown        \* TRUE once a method has raised a TypeError

vars == <<_reqs, _semQueues, queueKeys, _sems, _semCaps, _curId, _defaultCap,
          immediates, timers, cbLog, listening, events, thrown>>

----------------------------------------------------------------------------
(* Bounds of the model *)

\* The number of acquire calls in a behaviour.
MaxAcquire == 2

\* The number of acquire calls in a behaviour in which no cap is ever set.
MaxUncapped == 3

\* The number of acquire calls in a behaviour of requests for one semaphore.
MaxQueue == 3

\* The largest cap passed to setMaxLocks / setDefaultMaxLocks.
MaxCap == 2

\* acquire is called while fewer callbacks than this are scheduled or called,
\* where the number of acquire calls is not bounded otherwise.
MaxCallbacks == 3

\* and while fewer handles than this wait in every queue.
MaxWaiting == 4

\* The ceiling at which handles wrap (4294967295 in the source, scaled down).
HANDLE_LIMIT == 4

\* The value JavaScript reads from index 0 of an empty array (undefined).
Undef == -1

Sems == {"foo", "bar"}

\* The `sems` argument of acquire, after a single name became a one-element array.
SemLists == {<<"foo">>, <<"bar">>, <<"foo", "bar">>, <<"bar", "foo">>, <<"foo", "foo">>}

\* opts.priority; 2 is the default.
Priorities == {1, 2}

\* The options of acquire: wait and ttl say whether the option is given (with
\* a positive duration), instant is opts.instant.
PlainOpts == [wait : {FALSE}, ttl : {FALSE}, instant : {FALSE}, priority : Priorities]

TimedOpts == [wait : BOOLEAN, ttl : BOOLEAN, instant : BOOLEAN, priority : {2}]

TtlOpts == [wait : {FALSE}, ttl : BOOLEAN, instant : {FALSE}, priority : {2}]

CapOpts == [wait : {FALSE}, ttl : {FALSE}, instant : {FALSE}, priority : {2}]
\* The lists of names that follow the order foo, bar.
OrderedSemLists == {<<"foo">>, <<"bar">>, <<"foo", "bar">>}

TimedSemLists == {<<"foo">>, <<"foo", "bar">>}

\* The cap argument: null, or a number (negative numbers included).
Null == <<>>
Num(n) == <<n>>
CapArgs == {Null} \cup {Num(n) : n \in -1 .. MaxCap}

\* The handles a caller may pass to release and cancel when `max` requests
\* are made.
HandleArgs(max) == 0 .. (max - 1)

\* The `sem` argument of release: omitted, or a name (an array of names is
\* released name by name, like the request's own array when it is omitted).
SemArgs == {[kind |-> "omitted"]} \cup {[kind |-> "name", sem |-> s] : s \in Sems}

\* The semaphores that are given an explicit cap.
CappedSems == {"foo"}

\* The error argument of a callback and of cancel: null or omitted, the two
\* errors acquire creates, and an error of the caller.
NoErr == "null"
InstantError == "Could not acquire all locks instantly"
WaitError == "Failed to acquire all locks within allotted time"
CancelErrs == {NoErr, "cancelled"}

----------------------------------------------------------------------------
(* JavaScript objects and arrays *)

Has(obj, k) == k \in DOMAIN obj

Put(obj, k, v) == [x \in (DOMAIN obj) \cup {k} |-> IF x = k THEN v ELSE obj[x]]

Del(obj, k) == [x \in (DOMAIN obj) \ {k} |-> obj[x]]

\* array[0]
First(a) == IF a = <<>> THEN Undef ELSE Head(a)

\* array.shift()
Shift(a) == IF a = <<>> THEN a ELSE Tail(a)

\* array.indexOf(x), 1-based; 0 when absent
IndexOf(a, x) ==
    IF \E i \in 1 .. Len(a) : a[i] = x
    THEN CHOOSE i \in 1 .. Len(a) : a[i] = x /\ \A j \in 1 .. (i - 1) : a[j] # x
    ELSE 0

\* array.splice(i, 1)
RemoveAt(a, i) == [j \in 1 .. (Len(a) - 1) |-> IF j < i THEN a[j] ELSE a[j + 1]]

\* array.splice(i, 0, x): insert x before position i
InsertAt(a, i, x) ==
    [j \in 1 .. (Len(a) + 1) |-> IF j < i THEN a[j] ELSE IF j = i THEN x ELSE a[j - 1]]

\* array.filter(function(i) { return i != x; })
Without(a, x) == SelectSeq(a, LAMBDA i : i # x)

\* The instance state as one value.
State ==
    [reqs |-> _reqs, semQueues |-> _semQueues, queueKeys |-> queueKeys,
     sems |-> _sems, semCaps |-> _semCaps, curId |-> _curId,
     defaultCap |-> _defaultCap, immediates |-> immediates, timers |-> timers,
     cbLog |-> cbLog, listening |-> listening, events |-> events,
     thrown |-> FALSE, ret |-> FALSE]

\* A step starts with no event emitted yet.
Begin == [State EXCEPT !.events = <<>>]

\* A TypeError: the method stops here.
Throw(st) == [st EXCEPT !.thrown = TRUE, !.ret = FALSE]

\* this._semQueues[sem] = q (a new key goes last in the key order)
SetQueue(st, sem, q) ==
    [st EXCEPT !.semQueues = Put(st.semQueues, sem, q),
               !.queueKeys = IF Has(st.semQueues, sem) THEN @ ELSE Append(@, sem)]

\* delete this._semQueues[sem]
DelQueue(st, sem) ==
    [st EXCEPT !.semQueues = Del(st.semQueues, sem),
               !.queueKeys = Without(@, sem)]

\* this.emit(type, sem, handle): without a listener nothing is observed.
Emit(st, type, sem, handle) ==
    IF st.listening
    THEN [st EXCEPT !.events = Append(@, [type |-> type, sem |-> sem, handle |-> handle])]
    ELSE st

WaitTimer(handle) == [type |-> "wait", handle |-> handle]
TtlTimer(handle) == [type |-> "ttl", handle |-> handle]

----------------------------------------------------------------------------
(* The private methods *)

\* getMaxLocks returning the default cap for every semaphore.
getMaxLocks_DefaultOnly(st, sem) == st.defaultCap

\* getMaxLocks(sem): the explicit cap if the semaphore has one, else the default.
getMaxLocks(st, sem) ==
    IF Has(st.semCaps, sem) THEN st.semCaps[sem] ELSE st.defaultCap

\* _grantLock with the cap test off by one (<= for <).
HasFreeSlot_OffByOne(st, sem) ==
    LET cap == getMaxLocks(st, sem)
    IN  \/ ~Has(st.sems, sem) /\ cap # 0
        \/ Has(st.sems, sem) /\ Len(st.sems[sem]) <= cap

\* The condition of _grantLock: the semaphore has a free slot.
HasFreeSlot(st, sem) ==
    LET cap == getMaxLocks(st, sem)
    IN  \/ ~Has(st.sems, sem) /\ cap # 0
        \/ Has(st.sems, sem) /\ Len(st.sems[sem]) < cap

\* _grantLock, "If this handle was waiting in a queue for this sem, shift it out".
ShiftOut(st, handle, sem) ==
    IF Has(st.semQueues, sem) /\ First(st.semQueues[sem]) = handle
    THEN IF Len(st.semQueues[sem]) = 1
         THEN DelQueue(st, sem)
         ELSE [st EXCEPT !.semQueues[sem] = Shift(@)]
    ELSE st

\* _grantLock scheduling _callCB ahead of the tasks already scheduled.
LastSemGranted_JumpsQueue(st, handle) ==
    [st EXCEPT
        !.timers = IF st.reqs[handle].timeout THEN @ \ {WaitTimer(handle)} ELSE @,
        !.immediates = <<[type |-> "callCB", handle |-> handle]>> \o @]

\* _grantLock calling the callback itself instead of scheduling _callCB.
LastSemGranted_Synchronous(st, handle) ==
    [st EXCEPT
        !.timers = IF st.reqs[handle].timeout THEN @ \ {WaitTimer(handle)} ELSE @,
        !.reqs[handle].called = TRUE,
        !.cbLog = Append(@, [handle |-> handle, err |-> NoErr])]

\* _grantLock, "If this is the last sem this handle was waiting for, call the
\* cb": clears the wait timer the request record knows of and schedules _callCB.
LastSemGranted(st, handle) ==
    [st EXCEPT
        !.timers = IF st.reqs[handle].timeout THEN @ \ {WaitTimer(handle)} ELSE @,
        !.immediates = Append(@, [type |-> "callCB", handle |-> handle])]

_grantLock(st, handle, sem) ==
    IF HasFreeSlot(st, sem)
    THEN LET held == IF Has(st.sems, sem) THEN st.sems[sem] ELSE <<>>
             s1 == [st EXCEPT !.sems = Put(st.sems, sem, Append(held, handle))]
             s2 == ShiftOut(s1, handle, sem)
         IN  IF ~Has(s2.reqs, handle)
             THEN Throw(s2)    \* this._reqs[handle] is undefined
             ELSE LET s3 == [s2 EXCEPT !.reqs[handle].remain = @ - 1]
                      s4 == IF s3.reqs[handle].remain = 0
                            THEN LastSemGranted(s3, handle)
                            ELSE s3
                  IN  [Emit(s4, "acquire", sem, handle) EXCEPT !.ret = TRUE]
    ELSE [st EXCEPT !.ret = FALSE]

\* _enqueue with >= for > in the comparison of priorities: the new handle goes
\* before the queued handles of its own priority.
RECURSIVE EnqueuePos_BeforeEquals(_, _, _, _)
EnqueuePos_BeforeEquals(st, queue, targetPri, i) ==
    IF i > Len(queue) THEN Len(queue) + 1
    ELSE IF ~Has(st.reqs, queue[i]) THEN 0
    ELSE IF st.reqs[queue[i]].priority >= targetPri THEN i
    ELSE EnqueuePos_BeforeEquals(st, queue, targetPri, i + 1)

\* The loop of _enqueue: the position at which the handle is spliced in,
\* Len(queue) + 1 for a push, 0 if a queued handle has no request record.
RECURSIVE EnqueuePos(_, _, _, _)
EnqueuePos(st, queue, targetPri, i) ==
    IF i > Len(queue) THEN Len(queue) + 1
    ELSE IF ~Has(st.reqs, queue[i]) THEN 0
    ELSE IF st.reqs[queue[i]].priority > targetPri THEN i
    ELSE EnqueuePos(st, queue, targetPri, i + 1)

_enqueue(st, sem, handle) ==
    LET s1 == IF Has(st.semQueues, sem) THEN st ELSE SetQueue(st, sem, <<>>)
        queue == s1.semQueues[sem]
        pos == EnqueuePos(s1, queue, s1.reqs[handle].priority, 1)
    IN  IF pos = 0
        THEN Throw(s1)
        ELSE [s1 EXCEPT !.semQueues[sem] = InsertAt(queue, pos, handle)]

_requestLock(st, handle, sem) ==
    LET s1 == _grantLock(st, handle, sem)
    IN  IF s1.thrown THEN s1
        ELSE IF s1.ret THEN s1
        ELSE [_enqueue(s1, sem, handle) EXCEPT !.ret = FALSE]

\* _release deleting the record at the first release of the request.
CountRelease_AtFirst(st, handle) ==
    [st EXCEPT
        !.timers = IF st.reqs[handle].ttlTimer THEN @ \ {TtlTimer(handle)} ELSE @,
        !.reqs = Del(st.reqs, handle)]

\* _release deleting the record without clearing its ttl timer.
CountRelease_KeepsTimer(st, handle) ==
    LET s1 == [st EXCEPT !.reqs[handle].released = @ + 1]
    IN  IF s1.reqs[handle].released = Len(s1.reqs[handle].sems)
        THEN [s1 EXCEPT !.reqs = Del(s1.reqs, handle)]
        ELSE s1

\* _release, "Delete the req if we've released all the semaphores".
CountRelease(st, handle) ==
    LET s1 == [st EXCEPT !.reqs[handle].released = @ + 1]
    IN  IF s1.reqs[handle].released = Len(s1.reqs[handle].sems)
        THEN [s1 EXCEPT
                !.timers = IF s1.reqs[handle].ttlTimer
                           THEN @ \ {TtlTimer(handle)} ELSE @,
                !.reqs = Del(s1.reqs, handle)]
        ELSE s1

\* _release leaving the freed slot empty instead of granting it.
GrantNext_Nobody(st, sem) == st

\* _release, "Grant the sem to the next in line".
GrantNext(st, sem) ==
    IF Has(st.semQueues, sem) /\ Len(st.semQueues[sem]) > 0
    THEN _grantLock(st, st.semQueues[sem][1], sem)
    ELSE st

_release(st, handle, sem) ==
    LET idx == IF Has(st.sems, sem) THEN IndexOf(st.sems[sem], handle) ELSE 0
    IN  IF idx > 0
        THEN LET s1 == IF Len(st.sems[sem]) = 1
                       THEN [st EXCEPT !.sems = Del(st.sems, sem)]
                       ELSE [st EXCEPT !.sems[sem] = RemoveAt(@, idx)]
                 s2 == GrantNext(s1, sem)
             IN  IF s2.thrown THEN s2
                 ELSE IF ~Has(s2.reqs, handle) THEN Throw(s2)
                 ELSE [Emit(CountRelease(s2, handle), "release", sem, handle)
                          EXCEPT !.ret = TRUE]
        ELSE [st EXCEPT !.ret = FALSE]

\* sem.forEach(this._release.bind(this, handle))
RECURSIVE ReleaseEach(_, _, _)
ReleaseEach(st, handle, sems) ==
    IF sems = <<>> \/ st.thrown THEN st
    ELSE ReleaseEach(_release(st, handle, Head(sems)), handle, Tail(sems))

\* _grantEmptySlots: do { success = _grantLock(queue[0], sem) }
\*                   while (success && this._semQueues[sem])
RECURSIVE GrantLoop(_, _)
GrantLoop(st, sem) ==
    LET s1 == _grantLock(st, First(st.semQueues[sem]), sem)
    IN  IF ~s1.thrown /\ s1.ret /\ Has(s1.semQueues, sem)
        THEN GrantLoop(s1, sem)
        ELSE s1

_grantEmptySlots(st, sem) ==
    IF Has(st.semQueues, sem) THEN GrantLoop(st, sem) ELSE st

\* _getNextHandle wrapping one call late: "if (this._curId > HANDLE_LIMIT)".
_getNextHandle_WrapsLate(st) ==
    LET id == IF st.curId > HANDLE_LIMIT THEN 0 ELSE st.curId
    IN  [st EXCEPT !.curId = id + 1, !.ret = id]

\* _getNextHandle: the state after the call; the handle returned is in `ret`.
_getNextHandle(st) ==
    LET id == IF st.curId >= HANDLE_LIMIT THEN 0 ELSE st.curId
    IN  [st EXCEPT !.curId = id + 1, !.ret = id]

\* _callCB calling a callback it kept hold of when the record is gone.
_callCB_WithoutRecord(st, handle) ==
    IF ~Has(st.reqs, handle)
    THEN [st EXCEPT !.cbLog = Append(@, [handle |-> handle, err |-> NoErr])]
    ELSE LET s1 == IF st.reqs[handle].ttl
                   THEN [st EXCEPT !.reqs[handle].ttlTimer = TRUE,
                                   !.timers = @ \cup {TtlTimer(handle)}]
                   ELSE st
         IN  [s1 EXCEPT !.reqs[handle].called = TRUE,
                        !.cbLog = Append(@, [handle |-> handle, err |-> NoErr])]

\* _callCB: arms the ttl timer and calls the callback with (null, release).
_callCB(st, handle) ==
    IF ~Has(st.reqs, handle)
    THEN Throw(st)    \* req is undefined: req.ttl raises
    ELSE LET s1 == IF st.reqs[handle].ttl
                   THEN [st EXCEPT !.reqs[handle].ttlTimer = TRUE,
                                   !.timers = @ \cup {TtlTimer(handle)}]
                   ELSE st
         IN  [s1 EXCEPT !.reqs[handle].called = TRUE,
                        !.cbLog = Append(@, [handle |-> handle, err |-> NoErr])]

----------------------------------------------------------------------------
(* The public methods *)

\* sems.forEach(function(sem) { if (!self._requestLock(handle, sem))
\*                                  noninstant = true; })
\* `ret` of the result is the final value of noninstant.
RECURSIVE RequestEach(_, _, _, _)
RequestEach(st, handle, sems, noninstant) ==
    IF st.thrown THEN st
    ELSE IF sems = <<>> THEN [st EXCEPT !.ret = noninstant]
    ELSE LET s1 == _requestLock(st, handle, Head(sems))
         IN  RequestEach(s1, handle, Tail(sems), noninstant \/ ~s1.ret)

\* The request record acquire creates.
NewReq(sems, opts) ==
    [remain |-> Len(sems), released |-> 0, sems |-> sems, ttl |-> opts.ttl,
     priority |-> opts.priority, called |-> FALSE, timeout |-> FALSE,
     ttlTimer |-> FALSE]

\* acquire scheduling the cancel of a failed instant request without setting
\* its remain counter to 0.
AfterRequests_KeepsRemain(st, handle, opts, noninstant) ==
    IF noninstant /\ opts.instant
    THEN [st EXCEPT !.immediates = Append(@, [type |-> "cancel", handle |-> handle])]
    ELSE IF opts.wait
    THEN [st EXCEPT !.reqs[handle].timeout = TRUE,
                    !.timers = @ \cup {WaitTimer(handle)}]
    ELSE st

\* acquire, after the locks were requested: the instant and wait options.
AfterRequests(st, handle, opts, noninstant) ==
    IF noninstant /\ opts.instant
    THEN [st EXCEPT !.reqs[handle].remain = 0,
                    !.immediates = Append(@, [type |-> "cancel", handle |-> handle])]
    ELSE IF opts.wait
    THEN [st EXCEPT !.reqs[handle].timeout = TRUE,
                    !.timers = @ \cup {WaitTimer(handle)}]
    ELSE st

acquire(st, sems, opts) ==
    LET s0 == _getNextHandle(st)
        handle == s0.ret
        s1 == [s0 EXCEPT !.reqs = Put(s0.reqs, handle, NewReq(sems, opts))]
        s2 == RequestEach(s1, handle, sems, FALSE)
    IN  IF s2.thrown THEN s2
        ELSE [AfterRequests(s2, handle, opts, s2.ret) EXCEPT !.ret = handle]

\* cancel releasing the sems without filtering the handle out of the queues.
RECURSIVE CancelEach_KeepsQueued(_, _, _)
CancelEach_KeepsQueued(st, handle, sems) ==
    IF sems = <<>> \/ st.thrown THEN st
    ELSE CancelEach_KeepsQueued(_release(st, handle, Head(sems)), handle, Tail(sems))

\* cancel, the loop over req.sems: release the sem, then filter the handle out
\* of the sem's queue.
RECURSIVE CancelEach(_, _, _)
CancelEach(st, handle, sems) ==
    IF sems = <<>> \/ st.thrown THEN st
    ELSE LET sem == Head(sems)
             s1 == _release(st, handle, sem)
             s2 == IF ~s1.thrown /\ Has(s1.semQueues, sem)
                   THEN [s1 EXCEPT !.semQueues[sem] = Without(@, handle)]
                   ELSE s1
         IN  CancelEach(s2, handle, Tail(sems))

\* cancel never passing the error to the callback.
CancelCallback_Silent(st, handle, err, called) == st

\* cancel passing the error to the callback without looking at req.called.
CancelCallback_IgnoresCalled(st, handle, err, called) ==
    IF err # NoErr
    THEN [st EXCEPT !.cbLog = Append(@, [handle |-> handle, err |-> err])]
    ELSE st

\* cancel, "if (err && !req.called)": the callback receives the error.
CancelCallback(st, handle, err, called) ==
    IF err # NoErr /\ ~called
    THEN [st EXCEPT !.cbLog = Append(@, [handle |-> handle, err |-> err])]
    ELSE st

\* cancel with "if (req)" around the releases only: the error is reported
\* although there is no record.
cancel_WithoutRecord(st, handle, err) ==
    IF Has(st.reqs, handle)
    THEN LET req == st.reqs[handle]
             s1 == CancelEach(st, handle, req.sems)
         IN  IF s1.thrown THEN s1
             ELSE LET s2 == CancelCallback(s1, handle, err, req.called)
                  IN  [s2 EXCEPT !.reqs = Del(s2.reqs, handle)]
    ELSE CancelCallback(st, handle, err, FALSE)

cancel(st, handle, err) ==
    IF Has(st.reqs, handle)
    THEN LET req == st.reqs[handle]
             s1 == CancelEach(st, handle, req.sems)
         IN  IF s1.thrown THEN s1
             ELSE LET s2 == CancelCallback(s1, handle, err, req.called)
                  IN  [s2 EXCEPT !.reqs = Del(s2.reqs, handle)]
    ELSE st

release(st, handle, sem) ==
    IF Has(st.reqs, handle)
    THEN CASE sem.kind = "omitted" -> ReleaseEach(st, handle, st.reqs[handle].sems)
           [] sem.kind = "array" -> ReleaseEach(st, handle, sem.sems)
           [] sem.kind = "name" -> _release(st, handle, sem.sem)
    ELSE st

\* forceRelease calling release(handle) without the sem argument.
RECURSIVE ForceEach_ReleasesAll(_, _, _)
ForceEach_ReleasesAll(st, handles, sem) ==
    IF handles = <<>> \/ st.thrown THEN st
    ELSE ForceEach_ReleasesAll(release(st, Head(handles), [kind |-> "omitted"]),
                               Tail(handles), sem)

\* forceRelease, the loop over the clone of the holders.
RECURSIVE ForceEach(_, _, _)
ForceEach(st, handles, sem) ==
    IF handles = <<>> \/ st.thrown THEN st
    ELSE ForceEach(release(st, Head(handles), [kind |-> "name", sem |-> sem]),
                   Tail(handles), sem)

forceRelease(st, sem) ==
    IF Has(st.sems, sem) THEN ForceEach(st, st.sems[sem], sem) ELSE st

\* getLocks that also lists the semaphores that only have a wait queue, with
\* the count 0.
getLocks_WithWaiting(st) ==
    [st EXCEPT !.ret = [sem \in (DOMAIN st.sems) \cup (DOMAIN st.semQueues) |->
                           IF Has(st.sems, sem) THEN Len(st.sems[sem]) ELSE 0]]

\* getLocks: the state after the call; the mapping returned is in `ret`.
getLocks(st) ==
    [st EXCEPT !.ret = [sem \in DOMAIN st.sems |-> Len(st.sems[sem])]]

\* The cap stored as given, without Math.max.
ClampCap_AsGiven(cap) == cap[1]

\* Math.max(cap, 0)
ClampCap(cap) == IF cap[1] < 0 THEN 0 ELSE cap[1]

setMaxLocks(st, sem, cap) ==
    LET s1 == IF cap # Null
              THEN [st EXCEPT !.semCaps = Put(st.semCaps, sem, ClampCap(cap))]
              ELSE IF Has(st.semCaps, sem) /\ st.semCaps[sem] # 0
              THEN [st EXCEPT !.semCaps = Del(st.semCaps, sem)]
              ELSE st
    IN  _grantEmptySlots(s1, sem)

\* setDefaultMaxLocks, the for..in loop over this._semQueues: the keys are
\* visited in insertion order; a key deleted before it is reached is skipped.
RECURSIVE DefaultEach(_, _)
DefaultEach(st, keys) ==
    IF keys = <<>> \/ st.thrown THEN st
    ELSE LET sem == Head(keys)
         IN  DefaultEach(IF Has(st.semQueues, sem) /\ ~Has(st.semCaps, sem)
                         THEN _grantEmptySlots(st, sem)
                         ELSE st,
                         Tail(keys))

setDefaultMaxLocks(st, cap) ==
    LET prev == st.defaultCap
        s1 == [st EXCEPT !.defaultCap = IF cap = Null THEN 1 ELSE ClampCap(cap)]
    IN  IF s1.defaultCap > prev THEN DefaultEach(s1, s1.queueKeys) ELSE s1

\* The ttl timer's function releasing the locks without emitting 'killed'.
ttlExpired_Quiet(st, handle) == release(st, handle, [kind |-> "omitted"])

\* The ttl timer's function: release(handle), then emit 'killed'.
ttlExpired(st, handle) ==
    LET s1 == release(st, handle, [kind |-> "omitted"])
    IN  IF s1.thrown THEN s1 ELSE Emit(s1, "killed", "", handle)

----------------------------------------------------------------------------------------------------------------------------------------
(* The state machine *)

\* new Semlocks()
Created ==
    /\ _reqs = <<>>
    /\ _semQueues = <<>>
    /\ queueKeys = <<>>
    /\ _sems = <<>>
    /\ _semCaps = <<>>
    /\ _curId = 0
    /\ _defaultCap = 1
    /\ immediates = <<>>
    /\ timers = {}
    /\ cbLog = <<>>
    /\ events = <<>>
    /\ thrown = FALSE

\* A new instance, no listener attached.
Init == Created /\ listening = FALSE

\* A new instance with a listener attached for every event.
InitListening == Created /\ listening = TRUE

\* The state a method leaves behind becomes the next state.
Commit(st) ==
    /\ _reqs' = st.reqs
    /\ _semQueues' = st.semQueues
    /\ queueKeys' = st.queueKeys
    /\ _sems' = st.sems
    /\ _semCaps' = st.semCaps
    /\ _curId' = st.curId
    /\ _defaultCap' = st.defaultCap
    /\ immediates' = st.immediates
    /\ timers' = st.timers
    /\ cbLog' = st.cbLog
    /\ listening' = st.listening
    /\ events' = st.events
    /\ thrown' = st.thrown

\* No method has raised a TypeError.
Running == ~thrown

Acquire(sems, opts, max) ==
    /\ Running
    /\ _curId < max
    /\ Commit(acquire(Begin, sems, opts))

Cancel(handle, err) ==
    /\ Running
    /\ Commit(cancel(Begin, handle, err))

Release(handle, sem) ==
    /\ Running
    /\ Commit(release(Begin, handle, sem))

ForceRelease(sem) ==
    /\ Running
    /\ Commit(forceRelease(Begin, sem))

SetMaxLocks(sem, cap) ==
    /\ Running
    /\ Commit(setMaxLocks(Begin, sem, cap))

SetDefaultMaxLocks(cap) ==
    /\ Running
    /\ Commit(setDefaultMaxLocks(Begin, cap))

\* The next task of the setImmediate queue runs: _callCB(handle), or the
\* cancel(handle, new Error(...)) of a failed instant request.
RunImmediate ==
    /\ Running
    /\ immediates # <<>>
    /\ LET task == Head(immediates)
           st == [Begin EXCEPT !.immediates = Tail(@)]
       IN  Commit(IF task.type = "callCB"
                  THEN _callCB(st, task.handle)
                  ELSE cancel(st, task.handle, InstantError))

\* An armed timer fires: the wait timer runs cancel(handle, new Error(...)),
\* the ttl timer releases the request's locks and emits 'killed'.
FireTimer(t) ==
    /\ Running
    /\ t \in timers
    /\ LET st == [Begin EXCEPT !.timers = @ \ {t}]
       IN  Commit(IF t.type = "wait"
                  THEN cancel(st, t.handle, WaitError)
                  ELSE ttlExpired(st, t.handle))

\* The calls that take no request options, for the handles of `max` requests.
Calls(max) ==
    \/ \E handle \in HandleArgs(max), err \in CancelErrs : Cancel(handle, err)
    \/ \E handle \in HandleArgs(max), sem \in SemArgs : Release(handle, sem)
    \/ \E sem \in Sems : ForceRelease(sem)
    \/ \E sem \in CappedSems, cap \in CapArgs : SetMaxLocks(sem, cap)
    \/ \E cap \in CapArgs : SetDefaultMaxLocks(cap)
    \/ RunImmediate

\* Requests for one or two semaphores with a priority and no other option,
\* under every public call.
Next ==
    \/ \E sems \in SemLists, opts \in PlainOpts : Acquire(sems, opts, MaxAcquire)
    \/ Calls(MaxAcquire)

Spec == Init /\ [][Next]_vars

\* Requests with the wait, ttl and instant options, and the timers.
NextTimed ==
    \/ \E sems \in TimedSemLists, opts \in TimedOpts : Acquire(sems, opts, MaxAcquire)
    \/ \E t \in timers : FireTimer(t)
    \/ Calls(MaxAcquire)

SpecTimed == Init /\ [][NextTimed]_vars

\* Requests for the one semaphore foo, with priorities, under every public call.
NextQueue ==
    \/ \E opts \in PlainOpts : Acquire(<<"foo">>, opts, MaxQueue)
    \/ Calls(MaxQueue)

SpecQueue == Init /\ [][NextQueue]_vars

\* No cap is ever set: every semaphore keeps the default cap of 1.
NextUncapped ==
    \/ \E sems \in SemLists, opts \in TtlOpts : Acquire(sems, opts, MaxUncapped)
    \/ \E handle \in HandleArgs(MaxUncapped), err \in CancelErrs : Cancel(handle, err)
    \/ \E handle \in HandleArgs(MaxUncapped), sem \in SemArgs : Release(handle, sem)
    \/ \E sem \in Sems : ForceRelease(sem)
    \/ RunImmediate
    \/ \E t \in timers : FireTimer(t)

SpecUncapped == Init /\ [][NextUncapped]_vars

\* An instance with a listener for every event and no cap ever set: requests
\* with every combination of wait, ttl and instant.
NextListened ==
    \/ \E sems \in SemLists, opts \in TimedOpts : Acquire(sems, opts, MaxAcquire)
    \/ \E handle \in HandleArgs(MaxAcquire), err \in CancelErrs : Cancel(handle, err)
    \/ \E handle \in HandleArgs(MaxAcquire), sem \in SemArgs : Release(handle, sem)
    \/ \E sem \in Sems : ForceRelease(sem)
    \/ RunImmediate
    \/ \E t \in timers : FireTimer(t)

SpecListened == InitListening /\ [][NextListened]_vars

\* An instance with a listener for every event, under every public call:
\* plain requests of one priority, explicit and default caps changing.
NextCaps ==
    \/ \E sems \in SemLists, opts \in CapOpts : Acquire(sems, opts, MaxAcquire)
    \/ Calls(MaxAcquire)

SpecCaps == InitListening /\ [][NextCaps]_vars

\* acquire called any number of times, past HANDLE_LIMIT.
AcquireAgain(sems, opts) ==
    /\ Running
    /\ Len(cbLog) + Len(immediates) < MaxCallbacks
    /\ \A sem \in DOMAIN _semQueues : Len(_semQueues[sem]) < MaxWaiting
    /\ Commit(acquire(Begin, sems, opts))

\* Requests for foo without an option, as many as HANDLE_LIMIT and more, each
\* released or cancelled at any time.
NextWrap ==
    \/ \E opts \in CapOpts : AcquireAgain(<<"foo">>, opts)
    \/ \E handle \in HandleArgs(HANDLE_LIMIT), err \in CancelErrs : Cancel(handle, err)
    \/ \E handle \in HandleArgs(HANDLE_LIMIT) : Release(handle, [kind |-> "omitted"])
    \/ RunImmediate

SpecWrap == Init /\ [][NextWrap]_vars

\* Every request lists its names in the one order foo, bar; no cap is changed.
NextOrdered ==
    \/ \E sems \in OrderedSemLists, opts \in PlainOpts : Acquire(sems, opts, MaxUncapped)
    \/ \E handle \in HandleArgs(MaxUncapped), err \in CancelErrs : Cancel(handle, err)
    \/ \E handle \in HandleArgs(MaxUncapped), sem \in SemArgs : Release(handle, sem)
    \/ RunImmediate

SpecOrdered == Init /\ [][NextOrdered]_vars

\* A cap of at least 1 is given to a semaphore before the first request.
SetCapFirst(sem, cap) ==
    /\ _curId = 0
    /\ cap # Null
    /\ cap[1] >= 1
    /\ SetMaxLocks(sem, cap)

\* The request that received its success callback releases all its locks.
ReleaseAfterSuccess(handle) ==
    /\ \E i \in 1 .. Len(cbLog) : cbLog[i] = [handle |-> handle, err |-> NoErr]
    /\ Release(handle, [kind |-> "omitted"])

\* Requests of one priority without options, caps fixed at 1 or more before
\* the first request, no cancel; whoever was called back releases.
NextLive ==
    \/ \E sems \in SemLists, opts \in CapOpts : Acquire(sems, opts, MaxUncapped)
    \/ \E sem \in CappedSems, cap \in CapArgs : SetCapFirst(sem, cap)
    \/ \E handle \in HandleArgs(MaxUncapped) : ReleaseAfterSuccess(handle)
    \/ RunImmediate

\* Weak fairness of ReleaseAfterSuccess(handle), written out: the action is
\* enabled while the request has been called back and has its record, and
\* its step is the one that destroys the record.
ReleasesInTime(handle) ==
    \/ []<>(~(/\ Running
              /\ Has(_reqs, handle)
              /\ \E i \in 1 .. Len(cbLog) : cbLog[i] = [handle |-> handle, err |-> NoErr]))
    \/ []<><<Has(_reqs, handle) /\ ~Has(_reqs', handle)>>_vars

\* setImmediate tasks run, and a request that was called back releases.
SpecLive ==
    /\ Init
    /\ [][NextLive]_vars
    /\ WF_vars(RunImmediate)
    /\ \A handle \in HandleArgs(MaxUncapped) : ReleasesInTime(handle)

----------------------------------------------------------------------------
(* What the claims read from a state *)

\* The holder list of a semaphore (empty when this._sems has no such key).
Holders(sem) == IF Has(_sems, sem) THEN _sems[sem] ELSE <<>>

\* The number of locks held on a semaphore, as getLocks() reports it.
HolderCount(sem) == Len(Holders(sem))

\* The wait queue of a semaphore (empty when this._semQueues has no such key).
Queue(sem) == IF Has(_semQueues, sem) THEN _semQueues[sem] ELSE <<>>

\* The effective cap of a semaphore, as getMaxLocks(sem) reports it.
EffCap(sem) == getMaxLocks(State, sem)

\* The members of an array.
Range(a) == {a[i] : i \in 1 .. Len(a)}

Holds(handle, sem) == handle \in Range(Holders(sem))

Queued(handle, sem) == handle \in Range(Queue(sem))

\* The handles acquire has returned so far (no wrap-around has happened).
Issued == 0 .. (_curId - 1)

----------------------------------------------------------------------------
(* C1 *)

\* C1 as stated: after every operation the number of holders of a semaphore
\* is at most its effective cap.
C1_HoldersWithinCap == \A sem \in Sems : HolderCount(sem) <= EffCap(sem)

\* C1 as amended: a step never raises the number of holders of a semaphore
\* above its effective cap; more holders than the cap are only ever left by
\* a cap that was lowered under the holders, and their number does not grow.
C1_GrantsWithinCap ==
    [][\A sem \in Sems :
          HolderCount(sem)' > EffCap(sem)' => HolderCount(sem)' <= HolderCount(sem)]_vars

\* A semaphore is held up to its cap of 1 or more while a request waits for it.
C1_Witness ==
    \E sem \in Sems : /\ EffCap(sem) >= 1
                      /\ HolderCount(sem) = EffCap(sem)
                      /\ Queue(sem) # <<>>

----------------------------------------------------------------------------
(* C2 *)

\* The callback of a request was called with a null error.
Succeeded(handle) == \E i \in 1 .. Len(cbLog) : cbLog[i] = [handle |-> handle, err |-> NoErr]

\* C2: while no cap is ever set (SpecUncapped), at most one handle holds a
\* semaphore, and a handle becomes a holder only in a step in which every
\* other holder of the semaphore has left its holder list.
C2_DefaultIsExclusive ==
    [][\A sem \in Sems :
          /\ HolderCount(sem)' <= 1
          /\ \A h \in Issued' :
                Holds(h, sem)' /\ ~Holds(h, sem)
                    => \A g \in Range(Holders(sem)) : g # h => ~Holds(g, sem)']_vars

\* The second request holds foo after the first, which had received it and
\* has released it, while a third one waits for foo.
C2_Witness ==
    /\ Holds(1, "foo")
    /\ Succeeded(0) /\ ~Has(_reqs, 0)
    /\ Queued(2, "foo")

----------------------------------------------------------------------------
(* C3 *)

\* The step calls the callback of `handle` with a null error.
SuccessDelivered(handle) ==
    cbLog' = Append(cbLog, [handle |-> handle, err |-> NoErr])

\* C3: whenever the callback of a request is called with a null error, the
\* handle is in the holder list of every semaphore the request asked for.
C3_SuccessMeansAllHeld ==
    [][\A h \in Issued :
          SuccessDelivered(h) /\ Has(_reqs, h)
              => \A i \in 1 .. Len(_reqs[h].sems) : Holds(h, _reqs[h].sems[i])']_vars

----------------------------------------------------------------------------
(* C4 *)

\* The number of times x occurs in an array.
Occurrences(a, x) == Cardinality({i \in 1 .. Len(a) : a[i] = x})

\* The step grants the semaphore to the handle.
Granted(handle, sem) ==
    Occurrences(Holders(sem)', handle) > Occurrences(Holders(sem), handle)

\* Request g is served before request h: lower priority number, or the same
\* priority and submitted earlier.
Before(g, h) ==
    \/ _reqs[g].priority < _reqs[h].priority
    \/ _reqs[g].priority = _reqs[h].priority /\ g < h

\* C4: a queued request is never granted the semaphore while a request that is
\* to be served before it is still queued for the same semaphore.
C4_PriorityOrder ==
    [][\A sem \in Sems : \A h \in Issued : \A g \in Issued \ {h} :
          /\ Queued(h, sem) /\ Granted(h, sem)
          /\ Queued(g, sem) /\ Queued(g, sem)'
          /\ Has(_reqs, g) /\ Has(_reqs, h)
          => ~Before(g, h)]_vars

\* The request submitted last, with priority 1, holds foo while the request
\* submitted before it, with priority 2, is still queued behind it; the first
\* request has had foo and released it.
C4_Witness ==
    /\ Succeeded(0) /\ ~Has(_reqs, 0)
    /\ Holds(2, "foo") /\ Queued(1, "foo")
    /\ Has(_reqs, 1) /\ Has(_reqs, 2)
    /\ _reqs[2].priority < _reqs[1].priority
    /\ EffCap("foo") = 1

----------------------------------------------------------------------------
(* C5 *)

\* The number of times the callback of a request has been called.
TimesCalled(handle) == Cardinality({i \in 1 .. Len(cbLog) : cbLog[i].handle = handle})

\* C5: the callback of a request is called at most once, with success or
\* with an error, whatever cancel, timer or release follows.
C5_CalledAtMostOnce == \A h \in Issued : TimesCalled(h) <= 1

\* The first request received its success callback, the second one an error
\* from its wait timer, and both records are destroyed:
\* everything that could call a callback again has happened.
C5_Witness ==
    /\ cbLog = <<[handle |-> 0, err |-> NoErr], [handle |-> 1, err |-> WaitError]>>
    /\ _reqs = <<>>
    /\ immediates = <<>>
    /\ timers = {}

----------------------------------------------------------------------------
(* C6 *)

\* Every semaphore the request asked for has been granted to it.
FullyGranted(handle) ==
    /\ _reqs[handle].remain = 0
    /\ \A i \in 1 .. Len(_reqs[handle].sems) : Holds(handle, _reqs[handle].sems[i])

\* C6: the wait timer of a fully granted request is disarmed; a wait timer
\* that fires never finds its request fully granted, so that it never
\* releases the locks or destroys the record of such a request.
C6_WaitTimerSparesGranted ==
    [][\A h \in Issued :
          /\ WaitTimer(h) \in timers
          /\ FireTimer(WaitTimer(h))
          /\ Has(_reqs, h)
          => ~FullyGranted(h)]_vars

----------------------------------------------------------------------------
(* C7 *)

\* The handle is in no holder list and in no wait queue, and has no record,
\* once the step is over.
Vacated(handle) ==
    /\ \A sem \in Sems : ~Holds(handle, sem)' /\ ~Queued(handle, sem)'
    /\ ~Has(_reqs', handle)

\* Each slot the handle gives up is offered to the first other waiter of the
\* semaphore: that waiter holds the semaphore after the step whenever the
\* cap leaves room for it.
HandedOn(handle) ==
    \A sem \in Sems :
        LET waiters == Without(Queue(sem), handle)
        IN  (/\ Holds(handle, sem)
             /\ waiters # <<>>
             /\ HolderCount(sem) - 1 < EffCap(sem))
            => First(waiters) \in Range(Holders(sem)')

\* The wait timer of a request that is not fully granted fires.
WaitExpires(handle) ==
    /\ WaitTimer(handle) \in timers
    /\ FireTimer(WaitTimer(handle))
    /\ Has(_reqs, handle)
    /\ _reqs[handle].remain > 0

\* C7: when the wait timer of a request that is not fully granted fires, the
\* callback receives the timeout error, the locks the request holds are
\* released and handed to the next waiters, the handle leaves every wait
\* queue and the record is destroyed; a handle without a record is not
\* granted anything.
C7_WaitExpiry ==
    [][/\ \A h \in Issued :
             WaitExpires(h) =>
                 /\ cbLog' = Append(cbLog, [handle |-> h, err |-> WaitError])
                 /\ Vacated(h)
                 /\ HandedOn(h)
                 /\ ~thrown'
       /\ \A h \in Issued :
             ~Has(_reqs, h) => \A sem \in Sems : Holds(h, sem)' => Holds(h, sem)]_vars

\* The first request waited for foo (whose cap is 0) holding bar; its wait
\* timer has fired: it received the timeout error, its record is gone, and
\* the second request, which was waiting for both, now holds bar.
C7_Witness ==
    /\ cbLog = <<[handle |-> 0, err |-> WaitError]>>
    /\ DOMAIN _reqs = {1}
    /\ EffCap("foo") = 0
    /\ Holders("bar") = <<1>>
    /\ Holders("foo") = <<>>
    /\ Queue("foo") = <<1>>
    /\ ~Queued(1, "bar")

----------------------------------------------------------------------------
(* C8 *)

\* The deferred tasks acquire and _grantLock schedule with setImmediate.
CancelTask(handle) == [type |-> "cancel", handle |-> handle]

CallCBTask(handle) == [type |-> "callCB", handle |-> handle]

\* The cancel of a failed instant request is scheduled and has not run yet.
InstantFailed(handle) == CancelTask(handle) \in Range(immediates)

\* The callback of the request has received the instant error.
InstantErrorDelivered(handle) ==
    \E i \in 1 .. Len(cbLog) : cbLog[i] = [handle |-> handle, err |-> InstantError]

\* acquire of an instant request: when every semaphore was granted inside
\* acquire the success callback is scheduled, otherwise the cancel is and the
\* success callback is not.
InstantDecidedInAcquire ==
    \A sems \in TimedSemLists, opts \in TimedOpts, h \in 0 .. MaxAcquire :
        (opts.instant /\ h = _curId /\ Acquire(sems, opts, MaxAcquire)) =>
            IF \A i \in 1 .. Len(sems) :
                   Occurrences(Holders(sems[i])', h) = Occurrences(sems, sems[i])
            THEN immediates' = Append(immediates, CallCBTask(h))
            ELSE immediates' = Append(immediates, CancelTask(h))

\* A failed instant request has not received and will not receive the success
\* callback.
InstantNeverSucceeds ==
    \A h \in Issued :
        (InstantFailed(h) \/ InstantErrorDelivered(h)) =>
            ~Succeeded(h) /\ CallCBTask(h) \notin Range(immediates)

\* The scheduled cancel of a failed instant request runs.
InstantCancelRuns(handle) ==
    /\ immediates # <<>>
    /\ Head(immediates) = CancelTask(handle)
    /\ RunImmediate

\* The error is delivered and the request is gone; the holder count of every
\* semaphore the handle does not hold is unchanged.
InstantErrorOut(handle) ==
    /\ cbLog' = Append(cbLog, [handle |-> handle, err |-> InstantError])
    /\ Vacated(handle)
    /\ ~thrown'
    /\ \A sem \in Sems : ~Holds(handle, sem) => HolderCount(sem)' = HolderCount(sem)

\* C8 as stated: an instant request succeeds if and only if it was granted
\* everything inside acquire; otherwise its callback receives the error on
\* the next turn, never a success, and afterwards the handle holds nothing,
\* waits for nothing and has changed no holder count of the semaphores it
\* could not get.
C8_InstantAlwaysAnswered ==
    /\ [][InstantDecidedInAcquire]_vars
    /\ []InstantNeverSucceeds
    /\ [][\A h \in Issued : InstantCancelRuns(h) => InstantErrorOut(h)]_vars

\* C8, amended: the error is delivered on the next turn when the request
\* still has its record at that turn, that is, when the caller has neither
\* cancelled it nor released everything it asked for in between.
C8_InstantAnsweredIfLive ==
    /\ [][InstantDecidedInAcquire]_vars
    /\ []InstantNeverSucceeds
    /\ [][\A h \in Issued :
             InstantCancelRuns(h) /\ Has(_reqs, h) => InstantErrorOut(h)]_vars

\* The first request holds foo and has received its success callback; the
\* second one asked for foo with instant, has received the instant error, and
\* is gone without having changed the holders of foo.
C8_Witness ==
    /\ cbLog = <<[handle |-> 0, err |-> NoErr], [handle |-> 1, err |-> InstantError]>>
    /\ Holders("foo") = <<0>>
    /\ Queue("foo") = <<>>
    /\ DOMAIN _reqs = {0}
    /\ immediates = <<>>

----------------------------------------------------------------------------
(* C9 *)

\* cancel(handle, err) is called for a request that has its record.
CancelsLive(handle) ==
    /\ Has(_reqs, handle)
    /\ \E err \in CancelErrs : Cancel(handle, err)

\* C9: after cancel of a live request, whatever its state was, the handle is
\* in no holder list and in no wait queue, its record is destroyed, and each
\* slot it freed has been offered to the head of that semaphore's wait queue.
C9_CancelVacates ==
    [][\A h \in Issued : CancelsLive(h) => Vacated(h) /\ HandedOn(h) /\ ~thrown']_vars

\* The first request waited for foo (whose cap is 0) holding bar and was
\* cancelled with an error of the caller: it is gone from the holders, the
\* queues and the records, and the second request, which was waiting for
\* both, now holds bar.
C9_Witness ==
    /\ cbLog = <<[handle |-> 0, err |-> "cancelled"]>>
    /\ DOMAIN _reqs = {1}
    /\ _reqs[1].sems = <<"foo", "bar">>
    /\ EffCap("foo") = 0
    /\ Holders("bar") = <<1>>
    /\ Holders("foo") = <<>>
    /\ Queue("foo") = <<1>>
    /\ Queue("bar") = <<>>

----------------------------------------------------------------------------
(* C10 *)

\* cancel(handle), without an error, is called for a live request whose
\* callback has not been called.
CancelsSilently(handle) ==
    /\ Has(_reqs, handle)
    /\ TimesCalled(handle) = 0
    /\ Cancel(handle, NoErr)

\* C10: cancel(handle) without an error on a request whose callback has not
\* been called does not call it and destroys the record, and the callback of
\* a request that has lost its record uncalled is not called by any later
\* step.
C10_SilentCancel ==
    [][/\ \A h \in Issued : CancelsSilently(h) => cbLog' = cbLog /\ ~Has(_reqs', h)
       /\ \A h \in Issued :
             ~Has(_reqs, h) /\ TimesCalled(h) = 0 =>
                 Cardinality({i \in 1 .. Len(cbLog') : cbLog'[i].handle = h}) = 0]_vars

\* The second request asked with a wait duration, was queued and was
\* cancelled without an error before any callback: its record is gone while
\* its wait timer is still armed. Since then the first request has released
\* its lock and every deferred task has run, and its callback was not called.
C10_Witness ==
    /\ _curId = 2
    /\ ~thrown
    /\ _reqs = <<>>
    /\ _sems = <<>>
    /\ immediates = <<>>
    /\ timers = {WaitTimer(1)}
    /\ cbLog = <<[handle |-> 0, err |-> NoErr]>>

----------------------------------------------------------------------------
(* C11 *)

\* cancel(handle, err) is called with an error for a live request whose
\* callback has not been called.
CancelsWithError(handle) ==
    /\ Has(_reqs, handle)
    /\ TimesCalled(handle) = 0
    /\ Cancel(handle, "cancelled")

\* The callback of the request has received the error of the caller.
CancelErrorDelivered(handle) ==
    \E i \in 1 .. Len(cbLog) : cbLog[i] = [handle |-> handle, err |-> "cancelled"]

\* C11: cancel(handle, err) on a live request whose callback has not been
\* called calls the callback with that error, and a callback that received
\* the error has been called exactly once and never with success.
C11_CancelDeliversError ==
    /\ [][\A h \in Issued :
             CancelsWithError(h) =>
                 cbLog' = Append(cbLog, [handle |-> h, err |-> "cancelled"])]_vars
    /\ [](\A h \in Issued :
             CancelErrorDelivered(h) => TimesCalled(h) = 1 /\ ~Succeeded(h))

\* The first request was granted foo inside acquire and was cancelled with an
\* error before its deferred success callback ran: the callback has received
\* the error, the record is gone and the deferred _callCB is still queued.
C11_Witness ==
    /\ cbLog = <<[handle |-> 0, err |-> "cancelled"]>>
    /\ ~Has(_reqs, 0)
    /\ immediates = <<CallCBTask(0)>>
    /\ Holders("foo") = <<>>

----------------------------------------------------------------------------
(* C12 *)

\* The 'killed' event of a handle.
Killed(handle) == [type |-> "killed", sem |-> "", handle |-> handle]

\* The ttl timer fires for a request that received its success callback and
\* still has its record, that is, has not released everything.
TtlExpires(handle) ==
    /\ TtlTimer(handle) \in timers
    /\ FireTimer(TtlTimer(handle))
    /\ Has(_reqs, handle)
    /\ Succeeded(handle)

\* C12: when the ttl of a request that received its success callback and has
\* not released everything elapses, every lock it still holds is released,
\* exactly one 'killed' event with its handle is emitted, and each freed
\* semaphore is granted to the next waiter.
C12_TtlKills ==
    [][\A h \in Issued :
          TtlExpires(h) =>
              /\ \A sem \in Sems : ~Holds(h, sem)'
              /\ ~Has(_reqs', h)
              /\ HandedOn(h)
              /\ ~thrown'
              /\ events'[Len(events')] = Killed(h)
              /\ Cardinality({i \in 1 .. Len(events') : events'[i] = Killed(h)}) = 1]_vars

\* The first request held foo with a ttl and was killed after its success
\* callback; foo has passed to the second request, which was waiting for it.
C12_Witness ==
    /\ Succeeded(0)
    /\ ~Has(_reqs, 0)
    /\ events # <<>>
    /\ events[Len(events)] = Killed(0)
    /\ Holders("foo") = <<1>>
    /\ Queue("foo") = <<>>

----------------------------------------------------------------------------
(* C13 *)

\* The number of 'killed' events the last operation emitted for a handle.
KilledCount(handle) == Cardinality({i \in 1 .. Len(events) : events[i] = Killed(handle)})

\* The ttl timer of a request is armed only by the step that delivers its
\* success callback.
TtlArmedAtSuccess ==
    \A h \in Issued' :
        TtlTimer(h) \in timers' /\ TtlTimer(h) \notin timers
            => h \in Issued /\ SuccessDelivered(h)

\* A 'killed' event is emitted only for a request that has its record and
\* has received its success callback.
KilledOnlyLive ==
    \A h \in Issued :
        (\E i \in 1 .. Len(events') : events'[i] = Killed(h))
            => Has(_reqs, h) /\ Succeeded(h)

\* An armed ttl timer belongs to a request that has its record and has
\* received its success callback.
TtlTimerOnlyLive ==
    \A h \in Issued : TtlTimer(h) \in timers => Has(_reqs, h) /\ Succeeded(h)

\* C13: the ttl timer is armed only when the success callback is delivered
\* and is disarmed once the request has released everything or was cancelled;
\* no 'killed' event is emitted for a request without success callback or
\* without record.
C13_TtlTimerLife ==
    /\ [][TtlArmedAtSuccess /\ KilledOnlyLive]_vars
    /\ []TtlTimerOnlyLive

\* The first request has received its success callback and released
\* everything; the second one has received its success callback, which armed
\* its ttl timer, the only timer there is; the step killed nothing.
C13_Witness ==
    /\ Succeeded(0) /\ ~Has(_reqs, 0)
    /\ Succeeded(1) /\ Has(_reqs, 1)
    /\ timers = {TtlTimer(1)}
    /\ KilledCount(0) = 0 /\ KilledCount(1) = 0

----------------------------------------------------------------------------
(* C14 *)

Min(a, b) == IF a < b THEN a ELSE b

\* setMaxLocks(sem, cap) is called and raises the effective cap of sem.
RaisesCap(sem) ==
    /\ \E cap \in CapArgs : SetMaxLocks(sem, cap)
    /\ EffCap(sem)' > EffCap(sem)

\* The first n waiters of sem, in queue order, have moved from the head of
\* the wait queue to the end of the holder list.
HeadGranted(sem, n) ==
    /\ n <= Len(Queue(sem))
    /\ Holders(sem)' = Holders(sem) \o SubSeq(Queue(sem), 1, n)
    /\ Queue(sem)' = SubSeq(Queue(sem), n + 1, Len(Queue(sem)))

\* C14: setMaxLocks raising the cap of a semaphore from C to C' grants the
\* semaphore, within the call, to exactly min(C' - C, queue depth) requests
\* taken from the head of the wait queue, in every reachable state.
C14_RaiseGrantsDifference ==
    [][\A sem \in CappedSems :
          RaisesCap(sem) =>
              /\ ~thrown'
              /\ \A n \in 0 .. MaxQueue :
                    n = Min(EffCap(sem)' - EffCap(sem), Len(Queue(sem)))
                        => HeadGranted(sem, n)]_vars

----------------------------------------------------------------------------
(* C15 *)

\* C15: in every reachable state, the effective cap of sem after
\* setMaxLocks(sem, null) is the default cap, whatever explicit cap sem has
\* before the call.
C15_NullRevertsToDefault ==
    Running =>
        \A sem \in CappedSems :
            LET st == setMaxLocks(Begin, sem, Null)
            IN  getMaxLocks(st, sem) = st.defaultCap

----------------------------------------------------------------------------
(* C16 *)

\* A cap below 0 given to setMaxLocks or setDefaultMaxLocks is stored as 0.
NegativeCapStoredAsZero ==
    \A cap \in CapArgs :
        (cap # Null /\ cap[1] < 0) =>
            /\ \A sem \in CappedSems :
                  SetMaxLocks(sem, cap) => Has(_semCaps', sem) /\ _semCaps'[sem] = 0
            /\ SetDefaultMaxLocks(cap) => _defaultCap' = 0

\* No step grants a semaphore whose effective cap is 0 before and after it.
NoGrantAtCapZero ==
    \A sem \in Sems :
        EffCap(sem) = 0 /\ EffCap(sem)' = 0 =>
            \A h \in Issued' : ~Granted(h, sem)

\* acquire of a semaphore whose effective cap is 0 puts the handle in the
\* semaphore's wait queue.
AcquireAtCapZeroQueues ==
    \A sems \in TimedSemLists, opts \in TimedOpts, h \in 0 .. MaxAcquire :
        (h = _curId /\ Acquire(sems, opts, MaxAcquire)) =>
            \A i \in 1 .. Len(sems) :
                EffCap(sems[i]) = 0 => Queued(h, sems[i])' /\ ~Holds(h, sems[i])'

----------------------------------------------------------------------------
(* C17 *)

\* setMaxLocks lowers the effective cap of sem.
LowersCap(sem) ==
    /\ \E cap \in CapArgs : SetMaxLocks(sem, cap)
    /\ EffCap(sem)' < EffCap(sem)

\* setDefaultMaxLocks lowers the default cap.
LowersDefault ==
    /\ \E cap \in CapArgs : SetDefaultMaxLocks(cap)
    /\ _defaultCap' < _defaultCap

\* The step changes no holder list, wait queue, record or callback, emits no
\* 'release' event and raises nothing.
OnlyTheCapChanges ==
    /\ _sems' = _sems
    /\ _semQueues' = _semQueues
    /\ _reqs' = _reqs
    /\ cbLog' = cbLog
    /\ immediates' = immediates
    /\ \A i \in 1 .. Len(events') : events'[i].type # "release"
    /\ ~thrown'

\* C17: lowering a cap, explicit or default, leaves every holder list
\* unchanged, evicts nobody and emits no 'release' event; its only effect is
\* that a semaphore is granted only while its holders are below the cap.
C17_LoweringIsPassive ==
    [][/\ (LowersDefault \/ \E sem \in CappedSems : LowersCap(sem)) => OnlyTheCapChanges
       /\ \A sem \in Sems : \A h \in Issued' :
             Granted(h, sem) => HolderCount(sem)' <= EffCap(sem)']_vars

----------------------------------------------------------------------------
(* C18 *)

\* setDefaultMaxLocks raises the default cap.
RaisesDefault ==
    /\ \E cap \in CapArgs : SetDefaultMaxLocks(cap)
    /\ _defaultCap' > _defaultCap

\* The number of waiters of sem a cap of `cap` has room for.
Room(sem, cap) ==
    Min(IF cap > HolderCount(sem) THEN cap - HolderCount(sem) ELSE 0, Len(Queue(sem)))

\* C18: when setDefaultMaxLocks raises the default cap, every semaphore
\* without explicit cap grants to the head of its wait queue until its
\* holders reach the new default or its queue is empty, the semaphores with
\* an explicit cap keep their holders and queues, and nothing fails;
\* setDefaultMaxLocks(null) sets the default cap to 1.
C18_RaisedDefaultGrants ==
    [][/\ RaisesDefault =>
             /\ ~thrown'
             /\ \A sem \in Sems :
                   IF Has(_semCaps, sem)
                   THEN Holders(sem)' = Holders(sem) /\ Queue(sem)' = Queue(sem)
                   ELSE \A n \in 0 .. MaxAcquire :
                            n = Room(sem, _defaultCap') => HeadGranted(sem, n)
       /\ SetDefaultMaxLocks(Null) => _defaultCap' = 1]_vars

----------------------------------------------------------------------------
(* C19 *)

\* The slot the handle gives up on sem is offered to the first other waiter.
SlotOffered(handle, sem) ==
    LET waiters == Without(Queue(sem), handle)
    IN  (/\ Holds(handle, sem)
         /\ waiters # <<>>
         /\ HolderCount(sem) - 1 < EffCap(sem))
        => First(waiters) \in Range(Holders(sem)')

\* release(handle, sem) for a live request: the handle no longer holds sem,
\* the slot is offered to the next waiter, and the holders and waiters of
\* every other semaphore are as before.
ReleaseOfOne ==
    \A h \in Issued, sem \in Sems :
        (Has(_reqs, h) /\ Release(h, [kind |-> "name", sem |-> sem])) =>
            /\ ~Holds(h, sem)'
            /\ SlotOffered(h, sem)
            /\ \A other \in Sems \ {sem} :
                  Holders(other)' = Holders(other) /\ Queue(other)' = Queue(other)
            /\ ~thrown'

\* release(handle) for a live request: the handle holds nothing any more and
\* every slot is offered to the next waiter.
ReleaseOfAll ==
    \A h \in Issued :
        (Has(_reqs, h) /\ Release(h, [kind |-> "omitted"])) =>
            /\ \A sem \in Sems : ~Holds(h, sem)'
            /\ HandedOn(h)
            /\ ~thrown'

\* C19: release(handle, name) removes the handle from the holders of the
\* named semaphore only and grants the freed slot to the head of its wait
\* queue, leaving every other semaphore as it was; release(handle) releases
\* every semaphore the handle holds.
C19_ReleaseIsPerName == [][ReleaseOfOne /\ ReleaseOfAll]_vars

----------------------------------------------------------------------------
(* C20 *)

\* forceRelease(sem) is called while sem has holders.
ForcesOut(sem) ==
    /\ Holders(sem) # <<>>
    /\ ForceRelease(sem)

\* C20: after forceRelease(sem) none of the former holders holds sem, the
\* holders are the first waiters of sem in queue order, as many as the
\* effective cap admits, and no callback has been called within the call.
C20_ForceReleaseTurnsOver ==
    [][\A sem \in Sems :
          ForcesOut(sem) =>
              /\ \A h \in Range(Holders(sem)) : ~Holds(h, sem)'
              /\ \A n \in 0 .. MaxCap + 1 :
                    n = Min(EffCap(sem), Len(Queue(sem))) =>
                        /\ Holders(sem)' = SubSeq(Queue(sem), 1, n)
                        /\ Queue(sem)' = SubSeq(Queue(sem), n + 1, Len(Queue(sem)))
              /\ cbLog' = cbLog
              /\ ~thrown']_vars

----------------------------------------------------------------------------
(* C21 *)

\* The request holds some of the semaphores it asked for and is queued for
\* another one it does not hold.
PartlyGranted(handle) ==
    /\ Has(_reqs, handle)
    /\ \E i, j \in 1 .. Len(_reqs[handle].sems) :
          /\ Holds(handle, _reqs[handle].sems[i])
          /\ Queued(handle, _reqs[handle].sems[j])
          /\ ~Holds(handle, _reqs[handle].sems[j])

\* C21: a request can hold a part of the semaphores it asked for while it is
\* queued for the others, and as long as it does, with the default cap of 1,
\* no other request is granted a semaphore it holds.
C21_PartialHoldBlocks ==
    [][\A h \in Issued, sem \in Sems :
          (PartlyGranted(h) /\ Holds(h, sem) /\ Holds(h, sem)') =>
              \A g \in Issued' \ {h} : ~Granted(g, sem)]_vars

\* The second request asked for foo and bar: it holds foo and waits for bar,
\* which the first request holds, while the third request waits for foo.
C21_Witness ==
    /\ PartlyGranted(1)
    /\ Holders("foo") = <<1>> /\ Queue("bar") = <<1>>
    /\ Holders("bar") = <<0>>
    /\ Queue("foo") = <<2>>
    /\ _reqs[1].remain = 1

----------------------------------------------------------------------------
(* C22 *)

\* The step calls the callback of the handle with a null error.
SuccessInStep(handle) ==
    \E i \in (Len(cbLog) + 1) .. Len(cbLog') :
        cbLog'[i] = [handle |-> handle, err |-> NoErr]

\* C22: the success callback of a request is called only by the deferred
\* _callCB task of a handle acquire has already returned, in a step of its
\* own that grants and releases nothing; never inside acquire, release,
\* cancel, forceRelease, setMaxLocks or setDefaultMaxLocks.
C22_SuccessIsDeferred ==
    [][\A h \in Issued' :
          SuccessInStep(h) =>
              /\ h \in Issued
              /\ immediates # <<>>
              /\ Head(immediates) = CallCBTask(h)
              /\ immediates' = Tail(immediates)
              /\ _sems' = _sems
              /\ _semQueues' = _semQueues]_vars

\* The second request was granted foo by the release of the first one; its
\* deferred _callCB is queued and its callback has not been called yet.
C22_Witness ==
    /\ Succeeded(0) /\ ~Has(_reqs, 0)
    /\ Holders("foo") = <<1>>
    /\ immediates = <<CallCBTask(1)>>
    /\ TimesCalled(1) = 0
    /\ Has(_reqs, 1) /\ _reqs[1].remain = 0

----------------------------------------------------------------------------
(* C23 *)

\* The scheduled _callCB tasks, oldest first.
CallOrder == SelectSeq(immediates, LAMBDA t : t.type = "callCB")

\* The position of the last 'acquire' event of the handle among the events
\* of the step, 0 if there is none.
LastAcquire(evs, handle) ==
    LET at == {i \in 1 .. Len(evs) : evs[i].type = "acquire" /\ evs[i].handle = handle}
    IN  IF at = {} THEN 0 ELSE CHOOSE i \in at : \A j \in at : j <= i

\* The _callCB tasks already scheduled stay in their order, at most the
\* oldest one leaves, and the tasks a step schedules come after them, in the
\* order of the grants that scheduled them.
ScheduledInGrantOrder ==
    \E k \in 0 .. 1 :
        /\ k <= Len(CallOrder)
        /\ Len(CallOrder') >= Len(CallOrder) - k
        /\ SubSeq(CallOrder', 1, Len(CallOrder) - k) = SubSeq(CallOrder, k + 1, Len(CallOrder))
        /\ \A i, j \in (Len(CallOrder) - k + 1) .. Len(CallOrder') :
              i < j => /\ LastAcquire(events', CallOrder'[i].handle) > 0
                       /\ LastAcquire(events', CallOrder'[i].handle)
                              < LastAcquire(events', CallOrder'[j].handle)

\* C23: success callbacks are delivered in the order in which the requests
\* received their last grant: the _callCB tasks are scheduled in grant order
\* and a success callback is that of the oldest scheduled task.
C23_SuccessInGrantOrder ==
    [][/\ ScheduledInGrantOrder
       /\ \A h \in Issued :
             SuccessInStep(h) => CallOrder # <<>> /\ Head(CallOrder).handle = h]_vars

\* The second request was granted bar at once, the first one foo only later,
\* when the cap of foo was raised from 0: the callback of the second request
\* was called first.
C23_Witness ==
    /\ cbLog = <<[handle |-> 1, err |-> NoErr], [handle |-> 0, err |-> NoErr]>>
    /\ Holders("foo") = <<0>>
    /\ Holders("bar") = <<1>>

----------------------------------------------------------------------------
(* C24 *)

\* The handle has no live request record.
NoRecord(handle) == ~Has(_reqs, handle)

\* C24: release and cancel with a handle that has no live request record
\* (never issued, fully released or cancelled) raise no error, call no
\* callback, emit no event and change no holder list, wait queue, cap or
\* request record, whatever their other argument is.
C24_NoRecordNoEffect ==
    \A handle \in HandleArgs(HANDLE_LIMIT) :
        NoRecord(handle) =>
            /\ \A err \in CancelErrs : cancel(Begin, handle, err) = Begin
            /\ \A sem \in SemArgs : release(Begin, handle, sem) = Begin

\* The first request was cancelled with an error while the second one holds
\* foo and the third one waits for it; handle 3 was never issued.
C24_Witness ==
    /\ NoRecord(0)
    /\ NoRecord(3)
    /\ _curId = 3
    /\ cbLog = <<[handle |-> 0, err |-> "cancelled"]>>
    /\ Holders("foo") = <<1>>
    /\ Queue("foo") = <<2>>

----------------------------------------------------------------------------
(* C25 *)

\* The step is a call of acquire: only _getNextHandle changes _curId.
AcquireStep == _curId' # _curId

\* The handle the acquire of the step returned.
Returned == _curId' - 1

\* C25: the handle acquire returns is not the handle of a request that has
\* a live record when acquire is called.
C25_FreshHandle ==
    [][AcquireStep => ~Has(_reqs, Returned)]_vars

----------------------------------------------------------------------------
(* C26 *)

\* C26: handles are consecutive integers from 0: acquire returns the counter
\* and leaves it one higher, a counter that has reached HANDLE_LIMIT gives 0
\* and goes on with 1, and every handle issued is in 0 .. HANDLE_LIMIT - 1.
C26_ConsecutiveHandles ==
    /\ [][AcquireStep =>
            /\ Returned = (IF _curId >= HANDLE_LIMIT THEN 0 ELSE _curId)
            /\ Returned \in 0 .. (HANDLE_LIMIT - 1)
            /\ Has(_reqs', Returned)]_vars
    /\ [](/\ _curId \in 0 .. HANDLE_LIMIT
          /\ DOMAIN _reqs \subseteq 0 .. (HANDLE_LIMIT - 1))

\* The first four requests are gone and foo is free: the fifth request got
\* handle 0 again and holds foo, the sixth got handle 1 and waits.  The two
\* requests that had handle 0 each scheduled _callCB.
C26_Witness ==
    /\ _curId = 2
    /\ DOMAIN _reqs = {0, 1}
    /\ immediates = <<CallCBTask(0), CallCBTask(0)>>
    /\ Holders("foo") = <<0>>
    /\ Queue("foo") = <<1>>
    /\ cbLog = <<>>

----------------------------------------------------------------------------
(* C27 *)

\* The number of events of the type for (sem, handle) among the events.
EventCount(evs, type, sem, handle) ==
    Cardinality({i \in 1 .. Len(evs) :
        evs[i] = [type |-> type, sem |-> sem, handle |-> handle]})

\* Everything that is or was in a holder list in the step.
HeldInStep(sem) == Range(Holders(sem)) \cup Range(Holders(sem)')

\* C27: every operation emits one 'acquire' event for each grant and one
\* 'release' event for each removal from a holder list: for every semaphore
\* and handle, the 'acquire' events of the operation minus its 'release'
\* events are what the handle gained in the holder list, and there is no event
\* for a handle that the holder list never had.
C27_EventsMatchHolders ==
    [][\A sem \in Sems :
          /\ \A h \in HeldInStep(sem) :
                EventCount(events', "acquire", sem, h) - EventCount(events', "release", sem, h)
                    = Occurrences(Holders(sem)', h) - Occurrences(Holders(sem), h)
          /\ \A i \in 1 .. Len(events') :
                events'[i].sem = sem => events'[i].handle \in HeldInStep(sem)]_vars

----------------------------------------------------------------------------
(* C28 *)

\* Every handle a holder list or a wait queue of the semaphore mentions.
Mentioned(sem) == Range(Holders(sem)) \cup Range(Queue(sem))

\* C28: for every semaphore, no handle is in the wait queue and in the holder
\* list at the same time, and no handle is in the wait queue twice.
C28_QueuedOrHolding ==
    \A sem \in Sems : \A h \in Mentioned(sem) :
        /\ ~(Queued(h, sem) /\ Holds(h, sem))
        /\ Occurrences(Queue(sem), h) <= 1

----------------------------------------------------------------------------
(* C29 *)

\* setMaxLocks(sem, cap) with a number: getMaxLocks(sem) returns it afterwards,
\* clamped to 0.
ReturnsExplicitCap ==
    \A sem \in CappedSems, cap \in CapArgs \ {Null} :
        LET st == setMaxLocks(Begin, sem, cap)
        IN  getMaxLocks(st, sem) = ClampCap(cap)

\* A semaphore with no explicit cap has the default cap, which is 1 on a new
\* instance; setMaxLocks was never called for the semaphores outside CappedSems.
ReturnsDefaultCap ==
    /\ \A sem \in Sems : ~Has(_semCaps, sem) => EffCap(sem) = _defaultCap
    /\ \A sem \in Sems \ CappedSems : EffCap(sem) = _defaultCap

\* _grantLock grants the semaphore exactly when it has fewer holders than
\* getMaxLocks(sem) returns.
GrantLimitIsCap ==
    \A sem \in Sems : \A h \in DOMAIN _reqs :
        LET st == _grantLock(Begin, h, sem)
        IN  (st.sems # _sems) <=> (HolderCount(sem) < EffCap(sem))

\* The explicit caps change by setMaxLocks only, the default cap by
\* setDefaultMaxLocks only.
CapsSetBySetters ==
    /\ _semCaps' # _semCaps =>
          \E sem \in CappedSems, cap \in CapArgs :
              _semCaps' = setMaxLocks(Begin, sem, cap).semCaps
    /\ _defaultCap' # _defaultCap =>
          \E cap \in CapArgs :
              _defaultCap' = setDefaultMaxLocks(Begin, cap).defaultCap

\* C29: getMaxLocks(sem) returns the explicit cap of sem when setMaxLocks has
\* stored one, and the default cap otherwise, and _grantLock grants sem
\* exactly while sem has fewer holders than this value.
C29_GetMaxLocksIsTheLimit ==
    /\ [](ReturnsExplicitCap /\ ReturnsDefaultCap /\ GrantLimitIsCap)
    /\ [][CapsSetBySetters]_vars

\* foo has the explicit cap 2 and two holders; bar has the default cap, which
\* was set to 0, and the second request waits for it.
C29_Witness ==
    /\ Has(_semCaps, "foo")
    /\ _semCaps["foo"] = 2
    /\ _defaultCap = 0
    /\ EffCap("foo") = 2
    /\ EffCap("bar") = 0
    /\ Holders("foo") = <<0, 1>>
    /\ Queue("bar") = <<1>>

----------------------------------------------------------------------------
(* C30 *)

\* The semaphores that have at least one holder.
Held == {sem \in Sems : Holders(sem) # <<>>}

\* What getLocks() returns.
Locks == getLocks(Begin).ret

\* getLocks() reports exactly the held semaphores, each with the number of
\* its holders, and leaves the state as it is.
LocksAreTheHolders ==
    /\ DOMAIN Locks = Held
    /\ \A sem \in Held : Locks[sem] = Len(_sems[sem]) /\ Locks[sem] >= 1
    /\ [getLocks(Begin) EXCEPT !.ret = FALSE] = Begin

\* A semaphore that loses its last holder in a step is not reported after it.
LastReleaseDropsKey ==
    \A sem \in Sems :
        (HolderCount(sem) > 0 /\ HolderCount(sem)' = 0) => sem \notin DOMAIN Locks'

\* C30: getLocks() returns the mapping of exactly the semaphores with at least
\* one holder to their holder counts, a semaphore whose last holder released
\* is absent from it, and the call changes no state.
C30_GetLocksReportsHolders ==
    /\ []LocksAreTheHolders
    /\ [][LastReleaseDropsKey]_vars

\* The second request released bar, of which it was the last holder, and
\* still holds foo together with the first request: getLocks() returns {foo: 2}.
C30_Witness ==
    /\ DOMAIN Locks = {"foo"}
    /\ Locks["foo"] = 2
    /\ Holders("foo") = <<0, 1>>
    /\ Has(_reqs, 1)
    /\ _reqs[1].sems = <<"foo", "bar">>
    /\ _reqs[1].released = 1
    /\ Holders("bar") = <<>>

----------------------------------------------------------------------------
(* C31 *)

\* The request has a record and has not received all its locks.
Incomplete(handle) == Has(_reqs, handle) /\ _reqs[handle].remain > 0

\* g is queued for a semaphore that is at capacity and that h holds.
WaitsOn(g, h) ==
    /\ g # h
    /\ Incomplete(g)
    /\ Incomplete(h)
    /\ \E sem \in Sems :
          /\ Queued(g, sem)
          /\ Holds(h, sem)
          /\ HolderCount(sem) >= EffCap(sem)

\* g waits on h through a chain of at most n requests.
RECURSIVE WaitsOnChain(_, _, _)
WaitsOnChain(g, h, n) ==
    \/ WaitsOn(g, h)
    \/ n > 1 /\ \E k \in DOMAIN _reqs : WaitsOn(g, k) /\ WaitsOnChain(k, h, n - 1)

\* Two or more incomplete requests wait on each other in a cycle.
WaitCycle == \E h \in DOMAIN _reqs : WaitsOnChain(h, h, HANDLE_LIMIT)

\* Every request has the default priority.
SamePriority == \A h \in DOMAIN _reqs : _reqs[h].priority = 2

----------------------------------------------------------------------------
(* C32 *)

\* The handle is in a holder list or in a wait queue.
InUse(handle) == \E sem \in Sems : Holds(handle, sem) \/ Queued(handle, sem)

\* The step destroys the request record of the handle.
Destroyed(handle) == Has(_reqs, handle) /\ ~Has(_reqs', handle)

\* A record is not destroyed while its handle is in a holder list or a queue.
DestroyedWhenUnused ==
    \A h \in DOMAIN _reqs : Destroyed(h) => ~InUse(h)'

\* A live record has released fewer semaphores than it asked for.
NoRecordAfterLastRelease ==
    \A h \in DOMAIN _reqs : _reqs[h].released < Len(_reqs[h].sems)


\* The names of the request that are granted or waited for: the entries of
\* the handle in the holder lists and in the wait queues.
RECURSIVE Outstanding(_, _)
Outstanding(handle, sems) ==
    IF sems = {} THEN 0
    ELSE LET sem == CHOOSE x \in sems : TRUE
         IN  Occurrences(Holders(sem), handle) + Occurrences(Queue(sem), handle)
                 + Outstanding(handle, sems \ {sem})

\* The step is cancel(handle, err), called directly, as the task of a failed
\* instant request, or by the wait timer.
CancelStep(handle) ==
    LET ran(st) == /\ _reqs' = st.reqs
                   /\ _sems' = st.sems
                   /\ _semQueues' = st.semQueues
                   /\ cbLog' = st.cbLog
                   /\ immediates' = st.immediates
                   /\ timers' = st.timers
    IN  \/ \E err \in CancelErrs : ran(cancel(Begin, handle, err))
        \/ /\ immediates # <<>>
           /\ Head(immediates) = CancelTask(handle)
           /\ ran(cancel([Begin EXCEPT !.immediates = Tail(@)], handle, InstantError))
        \/ /\ WaitTimer(handle) \in timers
           /\ ran(cancel([Begin EXCEPT !.timers = @ \ {WaitTimer(handle)}], handle, WaitError))

\* A record is destroyed by cancel, or in the step in which the request has
\* released as many semaphores as it asked for.
DestroyedByCancelOrLastRelease ==
    \A h \in DOMAIN _reqs :
        Destroyed(h) =>
            \/ CancelStep(h)
            \/ /\ _reqs[h].released + Outstanding(h, Sems) = Len(_reqs[h].sems)
               /\ Outstanding(h, Sems)' = 0

\* C32: the record of a request is created by its acquire and destroyed by
\* cancel or by the release that brings its count of released semaphores to
\* the number of names it asked for; it is not destroyed while the handle is
\* in a holder list or a wait queue, and no live record has released all the
\* names it asked for.
C32_RecordLifetime ==
    /\ [][/\ AcquireStep /\ ~thrown' => Has(_reqs', Returned)
          /\ DestroyedWhenUnused
          /\ DestroyedByCancelOrLastRelease]_vars
    /\ []NoRecordAfterLastRelease

\* The second request asked for foo and bar, has released foo and holds bar:
\* its record is live with one release counted.  The first request released
\* its only semaphore and has no record.
C32_Witness ==
    /\ ~Has(_reqs, 0)
    /\ Has(_reqs, 1)
    /\ _reqs[1].sems = <<"foo", "bar">>
    /\ _reqs[1].released = 1
    /\ Holders("bar") = <<1>>
    /\ Holders("foo") = <<>>
    /\ Succeeded(0)
    /\ Succeeded(1)

----------------------------------------------------------------------------
(* C33 *)

\* The holder list and the wait queue of the semaphore are as before the step.
Untouched(sem) ==
    /\ Holders(sem)' = Holders(sem)
    /\ Queue(sem)' = Queue(sem)
    /\ Has(_sems, sem)' = Has(_sems, sem)
    /\ Has(_semQueues, sem)' = Has(_semQueues, sem)

\* C33: forceRelease(sem) leaves the holder list and the wait queue of every
\* other semaphore as they were, also for the handles it released from sem.
C33_ForceReleaseOnlySem ==
    [][\A sem \in Sems :
          ForcesOut(sem) => \A other \in Sems \ {sem} : Untouched(other)]_vars

\* The second request asked for foo and bar, was released from foo and is
\* still queued for bar, which the first request holds.
C33_Witness ==
    /\ Has(_reqs, 1)
    /\ _reqs[1].sems = <<"foo", "bar">>
    /\ _reqs[1].released = 1
    /\ Holders("foo") = <<>>
    /\ Queue("bar") = <<1>>
    /\ Holders("bar") = <<0>>

----------------------------------------------------------------------------
(* C34 *)

\* No slot of a semaphore is idle while a handle is queued for it.
NoIdleSlot ==
    \A sem \in Sems : Queue(sem) # <<>> => HolderCount(sem) >= EffCap(sem)

\* acquire grants a semaphore to the new handle only if nothing is queued for it.
NewcomerWaitsItsTurn ==
    AcquireStep => \A sem \in Sems : Granted(Returned, sem) => Queue(sem) = <<>>

\* C34: after every operation, a semaphore with a non-empty wait queue has at
\* least as many holders as its effective cap, and acquire never grants a
\* semaphore to the new request while another request is queued for it.
C34_NoIdleSlotWhileQueued ==
    /\ []NoIdleSlot
    /\ [][NewcomerWaitsItsTurn]_vars

----------------------------------------------------------------------------
(* C35 *)

\* C35: every entry of every holder list and of every wait queue is the
\* handle of a request with a live record, and setMaxLocks on a semaphore
\* for which no handle is queued grants nothing, adds no holder and does not
\* fail.
C35_EntriesAreLive ==
    /\ \A sem \in Sems : \A h \in Mentioned(sem) : Has(_reqs, h)
    /\ Running =>
          \A sem \in CappedSems, cap \in CapArgs :
              Queue(sem) = <<>> =>
                  LET st == setMaxLocks(Begin, sem, cap)
                  IN  ~st.thrown /\ st.sems = _sems

----------------------------------------------------------------------------
(* C36 *)

\* The step runs the _callCB task scheduled for the handle.
CompletionRuns(handle) ==
    /\ immediates # <<>>
    /\ Head(immediates) = CallCBTask(handle)
    /\ RunImmediate

\* C36: whenever the _callCB task of a handle runs, the request record of the
\* handle exists and the task does not fail.
C36_CompletionFindsRecord ==
    [][\A h \in Issued : CompletionRuns(h) => Has(_reqs, h) /\ ~thrown']_vars

----------------------------------------------------------------------------
(* C37 *)

\* The number of events of the type for the semaphore among the first k events.
SeenSoFar(evs, type, sem, k) ==
    Cardinality({i \in 1 .. k : evs[i].type = type /\ evs[i].sem = sem})

\* The holders of the semaphore as an observer counts them after the first k
\* events of the step.
ObservedHolders(sem, k) ==
    HolderCount(sem) + SeenSoFar(events', "acquire", sem, k)
                     - SeenSoFar(events', "release", sem, k)

\* The events of the step say that g received the slot of sem that h released.
HandsOver(sem, h, g, i, j) ==
    /\ events'[i] = [type |-> "release", sem |-> sem, handle |-> h]
    /\ events'[j] = [type |-> "acquire", sem |-> sem, handle |-> g]
    /\ HolderCount(sem)' = HolderCount(sem)

\* C37: when a release hands the slot to a queued request, the 'release'
\* event comes before the 'acquire' event, and an observer counting the
\* events in order never sees more holders of a semaphore than its cap.
C37_ReleaseBeforeAcquire ==
    [][\A sem \in Sems :
          /\ \A i, j \in 1 .. Len(events') : \A h, g \in Issued :
                HandsOver(sem, h, g, i, j) => i < j
          /\ HolderCount(sem) <= EffCap(sem) /\ EffCap(sem)' = EffCap(sem) =>
                \A k \in 0 .. Len(events') : ObservedHolders(sem, k) <= EffCap(sem)]_vars

----------------------------------------------------------------------------
(* C38 *)

\* C38: with one priority, caps fixed at 1 or more, no cancel, no wait or
\* instant option, and every request releasing all its locks after its
\* success callback, every submitted request eventually receives its success
\* callback.
C38_EveryRequestSucceeds ==
    \A h \in HandleArgs(MaxUncapped) : Has(_reqs, h) ~> Succeeded(h)

----------------------------------------------------------------------------
(* C39 *)

\* The number of times the handle is in a holder list.
RECURSIVE HeldLocks(_, _)
HeldLocks(handle, sems) ==
    IF sems = {} THEN 0
    ELSE LET sem == CHOOSE x \in sems : TRUE
         IN  Occurrences(Holders(sem), handle) + HeldLocks(handle, sems \ {sem})

\* The names of the request that were not granted yet: all its names but
\* those it holds and those it has released.
NotYetGranted(handle) ==
    Len(_reqs[handle].sems) - HeldLocks(handle, Sems) - _reqs[handle].released

\* The number of _callCB tasks scheduled for the handle.
Scheduled(handle) == Occurrences(immediates, CallCBTask(handle))

\* The step schedules _callCB for the handle exactly when it is the step
\* whose grant brings the remain counter of the handle to 0.
ScheduledAtLastGrant(handle) ==
    LET before == IF Has(_reqs, handle) THEN _reqs[handle].remain
                  ELSE Len(_reqs'[handle].sems)
        pending == IF immediates # <<>> /\ immediates' = Tail(immediates)
                   THEN Occurrences(Tail(immediates), CallCBTask(handle))
                   ELSE Scheduled(handle)
    IN  (Scheduled(handle)' > pending) <=>
            /\ before > 0
            /\ _reqs'[handle].remain = 0
            /\ \E sem \in Sems : Granted(handle, sem)

\* C39: the remain counter of every live request is at least 0 and is the
\* number of its names that were not granted yet, and _callCB is scheduled
\* in the step whose grant brings the counter to 0 and in no other step.
C39_RemainCountsUngranted ==
    /\ [](\A h \in DOMAIN _reqs :
              _reqs[h].remain >= 0 /\ _reqs[h].remain = NotYetGranted(h))
    /\ [][\A h \in DOMAIN _reqs' : ScheduledAtLastGrant(h)]_vars

====
